---- MODULE Spec2Model ----
(***************************************************************************)
(* The renderer of the bt file-tree browser.                               *)
(*                                                                         *)
(* Spec        the viewport (sticky scrolling): Renderer keeps EdgePadding *)
(*             and offsetMem, and cropTree cuts the window out of the      *)
(*             list of lines, moving offsetMem.  A line list is modelled   *)
(*             by the 0-based indices of its lines, so a returned slice    *)
(*             tells which lines are shown.                                *)
(* SpecRender  Render / renderTreeWithContent: the too-small guard in      *)
(*             front of cropTree.                                          *)
(* SpecTree    renderTree, the stack loop that flattens a tree, one loop   *)
(*             iteration per step.                                         *)
(* SpecLines   renderTree again, over smaller trees and every name length  *)
(*             and pane width, for the format of a line.                   *)
(* SpecSize    formatSize, one loop iteration per step.                    *)
(***************************************************************************)
EXTENDS Integers, Sequences, FiniteSets

\* ---------------------------------------------------------------- bounds
MaxLines == 8        \* longest flattened line list
MaxHeight == 7       \* tallest window
MinHeight == 1       \* window heights range over -MinHeight .. MaxHeight
MaxPad == 3          \* largest EdgePadding
MaxNodes == 4        \* most entries (nodes and nil entries) of a tree
MaxLineNodes == 3    \* most entries of a tree, for the format of its lines
MaxName == 2         \* longest node name, in runes
MaxWidth == 9        \* widest tree pane (sectionWidth)
MaxRenderLines == 12 \* longest line list handed to renderTreeWithContent
MaxExtraRows == 0    \* window heights reach minHeight + headLen + MaxExtraRows
MaxExtraCols == 0    \* window widths reach minWidth + MaxExtraCols
MaxHalfUnits == 5    \* byte counts reach MaxHalfUnits half units (Kb, Mb)
MaxSmallSize == 130  \* byte counts formatted with base 2

VARIABLES
    EdgePadding,     \* Renderer.EdgePadding, set when the Renderer is built
    offsetMem,       \* Renderer.offsetMem
    linesLen,        \* len(lines) of the latest cropTree call
    currentLine,     \* currentLine of the latest cropTree call
    windowHeight,    \* windowHeight of the latest cropTree call
    entryOffset,     \* offsetMem when the latest cropTree call was entered
    cropped,         \* the slice returned by the latest cropTree call
    pc,              \* "idle": no call yet; "returned"; "panic": the slice faulted
    tree,            \* the Tree handed to renderTree (never written by it)
    widthLim,        \* renderTree's width budget
    stack,           \* renderTree's stack of <<node, depth>>
    lines,           \* renderTree's lines, one record per line
    linen,           \* renderTree's counter of popped stack elements
    selectedRow,     \* renderTree's local currentLine (selectedRow in ui.go)
    tpc,             \* renderTree: "idle", "loop", "done"
    winHeight,       \* winHeight of the latest Render call
    winWidth,        \* winWidth of the latest Render call
    rendered,        \* what the latest Render call showed: "", "too small", "tree"
    sizeIn,          \* formatSize: the byte count s it was called with
    sizeBase,        \* formatSize: base
    sizeDen,         \* formatSize: the local s is sizeIn / sizeDen
    unitIdx,         \* formatSize: i
    formatted,       \* formatSize: the string returned
    fpc              \* formatSize: "idle", "loop", "done", "panic"

viewVars == <<EdgePadding, offsetMem, linesLen, currentLine, windowHeight,
              entryOffset, cropped, pc>>

treeVars == <<tree, widthLim, stack, lines, linen, selectedRow, tpc>>

renderVars == <<winHeight, winWidth, rendered>>

sizeVars == <<sizeIn, sizeBase, sizeDen, unitIdx, formatted, fpc>>

vars == <<viewVars, treeVars, renderVars, sizeVars>>

\* ------------------------------------------------------------ Go builtins
Min(a, b) == IF a < b THEN a ELSE b

Max(a, b) == IF a > b THEN a ELSE b

\* lines[lo:hi] of a slice of length = capacity n panics unless 0 <= lo <= hi <= n
SliceFaults(lo, hi, n) == lo < 0 \/ hi > n \/ lo > hi

\* the line list of n lines, each line named by its 0-based index
Lines(n) == [i \in 1..n |-> i - 1]

\* lines[lo:hi]
SliceOf(ls, lo, hi) == [i \in 1..(hi - lo) |-> ls[lo + i]]

\* ---------------------------------------------------------------- cropTree
\* mutant: the comparison is off by one
ScrollDownEager(offset, n, s, h, p) ==
    IF s + 1 >= h + offset - p THEN Min(s + 1 - h + p, n - h) ELSE offset

\* mutant: the padding is left out of the new offset
ScrollDownNoPadding(offset, n, s, h, p) ==
    IF s + 1 > h + offset - p THEN Min(s + 1 - h, n - h) ELSE offset

\* first if: the cursor is below the padded band
ScrollDown(offset, n, s, h, p) ==
    IF s + 1 > h + offset - p THEN Min(s + 1 - h + p, n - h) ELSE offset

\* mutant: the padding is added instead of subtracted
ScrollUpWrongSign(offset, s, p) ==
    IF s < p + offset THEN Max(s + p, 0) ELSE offset

\* mutant: the new offset is the old one moved up by one line
ScrollUpByOne(offset, s, p) ==
    IF s < p + offset THEN Max(offset - 1, 0) ELSE offset

\* second if: the cursor is above the padded band
ScrollUp(offset, s, p) ==
    IF s < p + offset THEN Max(s - p, 0) ELSE offset

\* the offset a call computes (and stores when windowHeight > 0)
CropOffset(mem, n, s, h, p) ==
    IF h > 0 THEN ScrollUp(ScrollDown(mem, n, s, h, p), s, p) ELSE mem

\* the upper bound of the returned slice
CropLimit(offset, n, h) ==
    IF h > 0 THEN Min(h + offset, n) ELSE n

\* mutant: a window without height resets the viewport
StoredOffsetReset(mem, offset, h) == IF h > 0 THEN offset ELSE 0

\* what the Renderer remembers after the call
StoredOffset(mem, offset, h) == IF h > 0 THEN offset ELSE mem

cropTree(n, s, h) ==
    /\ pc # "panic"
    /\ LET offset == CropOffset(offsetMem, n, s, h, EdgePadding)
           limit == CropLimit(offset, n, h)
       IN /\ offsetMem' = StoredOffset(offsetMem, offset, h)
          /\ IF SliceFaults(offset, limit, n)
                THEN /\ pc' = "panic"
                     /\ cropped' = <<>>
                ELSE /\ pc' = "returned"
                     /\ cropped' = SliceOf(Lines(n), offset, limit)
    /\ linesLen' = n
    /\ currentLine' = s
    /\ windowHeight' = h
    /\ entryOffset' = offsetMem
    /\ UNCHANGED EdgePadding

\* the selected rows renderTree can hand over for a list of n lines
SelectedRows(n) == IF n = 0 THEN {0} ELSE 0..(n - 1)

Heights == (0 - MinHeight)..MaxHeight

\* a fresh Renderer
ViewInit ==
    /\ EdgePadding \in 1..MaxPad
    /\ offsetMem = 0
    /\ linesLen = 0
    /\ currentLine = 0
    /\ windowHeight = 0
    /\ entryOffset = 0
    /\ cropped = <<>>
    /\ pc = "idle"

\* -------------------------------------------------------------- the Tree
\* A tree has entries 1..n, entry 1 being Root.  An entry is a nil pointer
\* ("nil"), or a node: a file ("file"), a directory whose Children is nil
\* ("closed") or a directory whose Children is a sequence ("open").
\* parent[j] < j is the entry whose Children holds j; Children is ordered by
\* entry number.  0 stands for the nil pointer in CurrentDir, Selected, Marked.
\* Every node's name has nameLen runes.
Kinds == {"nil", "file", "closed", "open"}

NilTree == [n |-> 1, parent |-> <<>>, kind |-> <<"nil">>,
            CurrentDir |-> 0, Selected |-> 0, Marked |-> 0, nameLen |-> 1]

\* node.Children of an open directory
Children(t, i) ==
    LET S == {j \in 2..t.n : t.parent[j] = i}
    IN [r \in 1..Cardinality(S) |->
           CHOOSE j \in S : Cardinality({x \in S : x < j}) = r - 1]

IsDir(t, i) == t.kind[i] \in {"closed", "open"}

Shapes(k) == {f \in [2..k -> 1..k] : \A j \in 2..k : f[j] < j}

\* Root is nil or an open directory; only an open directory has children
KindsOf(k, f) ==
    {g \in [1..k -> Kinds] :
        /\ g[1] \in {"nil", "open"}
        /\ \A j \in 2..k : g[f[j]] = "open"}

\* CurrentDir is an open directory of the tree (nil when Root is nil)
CurrentDirs(k, g) ==
    IF g[1] = "nil" THEN {0} ELSE {i \in 1..k : g[i] = "open"}

\* GetSelectedChild(): nil, or one of the nodes in CurrentDir's Children
SelectedChildren(k, f, g, c) ==
    {0} \cup {j \in 2..k : f[j] = c /\ g[j] # "nil"}

\* Marked: nil, or a node of the tree
MarkedNodes(k, g) == {0} \cup {i \in 1..k : g[i] # "nil"}

\* sectionWidth = floor(0.5 * winWidth), with winWidth >= minWidth
minWidth == 10

minHeight == 10

SectionWidths == (minWidth \div 2)..MaxWidth

\* -------------------------------------------------------------- renderTree
\* 6 = len([]rune{"... <-"})
reserveWidth == 6

\* one line of the tree: the node it shows (0: the empty-directory
\* placeholder), its depth (the indent is 2 * depth runes), how many runes
\* of the name it keeps, whether "..." follows them, and its styling
\* (blue for a directory, background for the marked node, " <-" marker)
FormatLine(t, w, node, depth) ==
    LET n == t.nameLen
        indent == 2 * depth
        cut == n + indent > w - reserveWidth
        dir == IsDir(t, node)
    IN [node |-> node,
        depth |-> depth,
        keep |-> IF dir \/ ~cut THEN n ELSE Max(0, w - indent - reserveWidth),
        ellipsis |-> cut /\ ~dir,
        blue |-> dir,
        marked |-> t.Marked = node,
        marker |-> t.Selected = node]

\* strings.Repeat("  ", depth+1) + "..." + " <-"
PlaceholderLine(depth) ==
    [node |-> 0, depth |-> depth, keep |-> 0, ellipsis |-> TRUE,
     blue |-> FALSE, marked |-> FALSE, marker |-> TRUE]

\* mutant: the children are pushed first to last
PushChildrenForward(s, ch, depth) ==
    s \o [r \in 1..Len(ch) |-> <<ch[r], depth + 1>>]

\* for i := len(node.Children) - 1; i >= 0; i-- { s.Push(stackEl{ch, depth + 1}) }
PushChildren(s, ch, depth) ==
    s \o [r \in 1..Len(ch) |-> <<ch[Len(ch) + 1 - r], depth + 1>>]

\* mutant: every empty directory gets the placeholder
EmptyCurrentDirAnyDir(t, node) ==
    t.kind[node] = "open" /\ Len(Children(t, node)) = 0

\* whether the placeholder of an empty current directory follows the node
EmptyCurrentDir(t, node) ==
    t.kind[node] = "open" /\ Len(Children(t, node)) = 0 /\ t.CurrentDir = node

\* the lines one node appends
NodeLines(t, w, node, depth) ==
    <<FormatLine(t, w, node, depth)>>
        \o (IF EmptyCurrentDir(t, node)
               THEN <<PlaceholderLine(depth + 1)>> ELSE <<>>)

\* currentLine after the node's lines are appended, cnt being linen
RowAfter(t, node, cnt, row) ==
    IF EmptyCurrentDir(t, node) THEN cnt + 1
    ELSE IF t.Selected = node THEN cnt
    ELSE row

\* one iteration of `for s.Len() > 0`
renderTreeStep ==
    /\ tpc = "loop"
    /\ Len(stack) > 0
    /\ LET el == stack[Len(stack)]
           rest == SubSeq(stack, 1, Len(stack) - 1)
           node == el[1]
           depth == el[2]
       IN /\ linen' = linen + 1
          /\ IF tree.kind[node] = "nil"
                THEN /\ stack' = rest
                     /\ UNCHANGED <<lines, selectedRow>>
                ELSE /\ lines' = lines \o NodeLines(tree, widthLim, node, depth)
                     /\ selectedRow' = RowAfter(tree, node, linen + 1, selectedRow)
                     /\ stack' = IF tree.kind[node] = "open"
                                    THEN PushChildren(rest, Children(tree, node), depth)
                                    ELSE rest
    /\ UNCHANGED <<tree, widthLim, tpc>>

\* return lines, currentLine
renderTreeReturn ==
    /\ tpc = "loop"
    /\ Len(stack) = 0
    /\ tpc' = "done"
    /\ UNCHANGED <<tree, widthLim, stack, lines, linen, selectedRow>>

\* no renderTree call is under way
TreeAtRest ==
    /\ tree = NilTree
    /\ widthLim = 0
    /\ stack = <<>>
    /\ lines = <<>>
    /\ linen = -1
    /\ selectedRow = 0
    /\ tpc = "idle"

\* renderTree entered: the stack holds Root at depth 0.  The tree has at
\* most maxn entries, names of a length in `names`, the budget is in `widths`
TreeInitWith(maxn, names, widths) ==
    /\ \E k \in 1..maxn : \E f \in Shapes(k) : \E g \in KindsOf(k, f) :
       \E c \in CurrentDirs(k, g) : \E s \in SelectedChildren(k, f, g, c) :
       \E m \in MarkedNodes(k, g) : \E l \in names :
          tree = [n |-> k, parent |-> f, kind |-> g, CurrentDir |-> c,
                  Selected |-> s, Marked |-> m, nameLen |-> l]
    /\ widthLim \in widths
    /\ stack = <<<<1, 0>>>>
    /\ lines = <<>>
    /\ linen = -1
    /\ selectedRow = 0
    /\ tpc = "loop"

\* the trees of the traversal claims: up to MaxNodes entries, in the
\* narrowest and in the widest pane
TreeInit == TreeInitWith(MaxNodes, {MaxName}, {minWidth \div 2, MaxWidth})

\* the trees of the line-format claims: up to MaxLineNodes entries, every
\* name length and every pane width
LineInit == TreeInitWith(MaxLineNodes, 1..MaxName, SectionWidths)

\* a Renderer on which cropTree is not called
ViewAtRest ==
    /\ EdgePadding = 1
    /\ offsetMem = 0
    /\ linesLen = 0
    /\ currentLine = 0
    /\ windowHeight = 0
    /\ entryOffset = 0
    /\ cropped = <<>>
    /\ pc = "idle"

\* no Render call was made
RenderAtRest ==
    /\ winHeight = 0
    /\ winWidth = 0
    /\ rendered = ""

\* no formatSize call is under way
SizeAtRest ==
    /\ sizeIn = 0
    /\ sizeBase = 0
    /\ sizeDen = 1
    /\ unitIdx = 0
    /\ formatted = <<>>
    /\ fpc = "idle"

InitTree == ViewAtRest /\ TreeInit /\ RenderAtRest /\ SizeAtRest

NextTree ==
    \/ renderTreeStep /\ UNCHANGED <<viewVars, renderVars, sizeVars>>
    \/ renderTreeReturn /\ UNCHANGED <<viewVars, renderVars, sizeVars>>

SpecTree == InitTree /\ [][NextTree]_vars

InitLines == ViewAtRest /\ LineInit /\ RenderAtRest /\ SizeAtRest

SpecLines == InitLines /\ [][NextTree]_vars

\* ------------------------------------------- Render, renderTreeWithContent
\* len(header) in renderHeading
headLen == 3

\* mutant: only the width is looked at
TooSmallWidthOnly(h, w) == w < minWidth

\* if winWidth < minWidth || winHeight < minHeight
TooSmall(h, w) == w < minWidth \/ h < minHeight

\* Render(s, ht, wt), the tree of s flattening to n lines with row r selected
renderTreeWithContent(n, r, ht, wt) ==
    /\ pc # "panic"
    /\ winHeight' = ht
    /\ winWidth' = wt
    /\ IF TooSmall(ht - headLen, wt)
          THEN /\ rendered' = "too small"
               /\ entryOffset' = offsetMem
               /\ UNCHANGED <<EdgePadding, offsetMem, linesLen, currentLine,
                              windowHeight, cropped, pc>>
          ELSE /\ rendered' = "tree"
               /\ cropTree(n, r, ht - headLen)

WinHeights == (minHeight + headLen - 1)..(minHeight + headLen + MaxExtraRows)

WinWidths == (minWidth - 1)..(minWidth + MaxExtraCols)

InitRender == ViewInit /\ TreeAtRest /\ RenderAtRest /\ SizeAtRest

NextRender ==
    /\ \E n \in 0..MaxRenderLines : \E r \in SelectedRows(n) :
       \E ht \in WinHeights : \E wt \in WinWidths :
          renderTreeWithContent(n, r, ht, wt)
    /\ UNCHANGED <<treeVars, sizeVars>>

SpecRender == InitRender /\ [][NextRender]_vars

Init == ViewInit /\ TreeAtRest /\ RenderAtRest /\ SizeAtRest

Next ==
    /\ \E n \in 0..MaxLines : \E s \in SelectedRows(n) : \E h \in Heights :
          cropTree(n, s, h)
    /\ UNCHANGED <<treeVars, renderVars, sizeVars>>

Spec == Init /\ [][Next]_vars

\* -------------------------------------------------------------- formatSize
\* len(sizes): "b", "Kb", "Mb", "Gb", "Tb", "Pb", "Eb"
unitsLimit == 7

\* num / den rounded to an integer the way fmt rounds a float64 it prints
\* (to nearest, a tie to the even digit); the divisions of formatSize by a
\* power of two are exact in float64, so sizeIn / sizeDen is the float's value
RoundHalfEven(num, den) ==
    LET q == num \div den
        r == num % den
    IN IF 2 * r > den THEN q + 1
       ELSE IF 2 * r < den THEN q
       ELSE IF q % 2 = 0 THEN q ELSE q + 1

\* the digits of num / den printed with `decimals` decimals, as an integer
\* (1.50 is 150 with 2 decimals)
Digits(num, den, decimals) ==
    IF decimals = 0 THEN RoundHalfEven(num, den)
    ELSE (num \div den) * 100 + RoundHalfEven((num % den) * 100, den)

\* f := "%.0f %s"; if i > 1 { f = "%.2f %s" }
Decimals(i) == IF i > 1 THEN 2 ELSE 0

\* s >= base && i < unitsLimit
LoopCondition(num, den, base, i) == num >= base * den /\ i < unitsLimit

\* one iteration of the loop: s = s / base; i++
formatSizeStep ==
    /\ fpc = "loop"
    /\ LoopCondition(sizeIn, sizeDen, sizeBase, unitIdx)
    /\ sizeDen' = sizeDen * sizeBase
    /\ unitIdx' = unitIdx + 1
    /\ UNCHANGED <<sizeIn, sizeBase, formatted, fpc>>

\* return fmt.Sprintf(f, s, sizes[i]); sizes[i] panics for i >= len(sizes)
formatSizeReturn ==
    /\ fpc = "loop"
    /\ ~LoopCondition(sizeIn, sizeDen, sizeBase, unitIdx)
    /\ IF unitIdx >= unitsLimit
          THEN /\ fpc' = "panic"
               /\ UNCHANGED formatted
          ELSE /\ fpc' = "done"
               /\ formatted' =
                    [digits |-> Digits(sizeIn, sizeDen, Decimals(unitIdx)),
                     decimals |-> Decimals(unitIdx),
                     unit |-> unitIdx]
    /\ UNCHANGED <<sizeIn, sizeBase, sizeDen, unitIdx>>

\* the byte counts formatted with base 1024: around the multiples of half a
\* Kb and of half a Mb
KiloSizes ==
    {x \in {m * u + d : m \in 0..MaxHalfUnits, u \in {512, 524288},
                        d \in {-1, 0, 1}} : x >= 0}

\* formatSize entered with (s, base): base 1024 as renderHeading calls it,
\* and base 2 with small byte counts
SizeInit ==
    /\ \/ sizeBase = 1024 /\ sizeIn \in KiloSizes
       \/ sizeBase = 2 /\ sizeIn \in 0..MaxSmallSize
    /\ sizeDen = 1
    /\ unitIdx = 0
    /\ formatted = <<>>
    /\ fpc = "loop"

InitSize == ViewAtRest /\ TreeAtRest /\ RenderAtRest /\ SizeInit

NextSize ==
    \/ formatSizeStep /\ UNCHANGED <<viewVars, treeVars, renderVars>>
    \/ formatSizeReturn /\ UNCHANGED <<viewVars, treeVars, renderVars>>

SpecSize == InitSize /\ [][NextSize]_vars

\* ------------------------------------------------------------------ claims
called == pc # "idle"

\* the viewport invariant of the spec, for a list of n lines and height h
OffsetInRange(offset, n, h) == 0 <= offset /\ offset <= Max(0, n - h)

\* C1: after every cropTree call with H > 0 the stored offset satisfies
\* 0 <= offset <= max(0, N - H) for that call's N and H.
C1_OffsetInvariant ==
    (called /\ windowHeight > 0) =>
        OffsetInRange(offsetMem, linesLen, windowHeight)

\* C2: every cropTree call with H > 0 returns exactly min(H, N) lines.
C2_SliceLength ==
    (pc = "returned" /\ windowHeight > 0) =>
        Len(cropped) = Min(windowHeight, linesLen)

\* C3: after a cropTree call with H > 0, N > 0 and 2P < H the selected line
\* satisfies offset <= S < min(offset + H, N) for the stored offset, and it
\* is one of the lines of the slice the call returns.
C3_SelectionVisible ==
    (called /\ windowHeight > 0 /\ linesLen > 0
            /\ 2 * EdgePadding < windowHeight) =>
        /\ offsetMem <= currentLine
        /\ currentLine < Min(offsetMem + windowHeight, linesLen)
        /\ pc = "returned" =>
              \E i \in 1..Len(cropped) : cropped[i] = currentLine

\* C3 witness: the window had to scroll down over a list longer than itself
C3_Witness ==
    /\ pc = "returned"
    /\ windowHeight > 0
    /\ 2 * EdgePadding < windowHeight
    /\ linesLen > windowHeight
    /\ offsetMem > entryOffset
    /\ currentLine = linesLen - 1

\* C4: the bounds used to slice the line list satisfy
\* 0 <= offset <= limit <= N in every call, so the crop never faults.
C4_SliceBoundsValid ==
    called =>
        /\ 0 <= offsetMem
        /\ offsetMem <= CropLimit(offsetMem, linesLen, windowHeight)
        /\ CropLimit(offsetMem, linesLen, windowHeight) <= linesLen
        /\ pc = "returned"

\* C5: a second cropTree call with the same N, S and H > 0 as the call
\* before it stores the same offset as that call did (stated for two calls
\* that both return; a second call that faults breaks it as well).
C5_Idempotent ==
    [][(/\ pc = "returned"
        /\ pc' = "returned"
        /\ windowHeight > 0
        /\ linesLen' = linesLen
        /\ currentLine' = currentLine
        /\ windowHeight' = windowHeight) => offsetMem' = offsetMem]_vars

\* C6: a cropTree call with H <= 0 returns the whole line list, in order.
C6_NoHeightReturnsAll ==
    (pc = "returned" /\ windowHeight <= 0) => cropped = Lines(linesLen)

\* the selection is at least p lines from both edges of the window at offset
InBand(offset, s, h, p) == s >= offset + p /\ s + 1 <= offset + h - p

\* C7: a cropTree call with H > 0 entered with the selection at least P lines
\* from both visible edges leaves the offset as it was.
C7_Sticky ==
    (called /\ windowHeight > 0
            /\ InBand(entryOffset, currentLine, windowHeight, EdgePadding)) =>
        offsetMem = entryOffset

\* C7 witness: a scrolled window (offset > 0) that the call leaves in place
C7_Witness ==
    /\ pc = "returned"
    /\ windowHeight > 0
    /\ entryOffset > 0
    /\ InBand(entryOffset, currentLine, windowHeight, EdgePadding)

\* C8: a cropTree call with H > 0 and 2P < H, entered with an offset within
\* the invariant and S + 1 > H + offset - P, stores min(S + 1 - H + P, N - H),
\* which is not smaller than the prior offset and has offset + H <= N.
C8_ScrollDown ==
    (called /\ windowHeight > 0 /\ 2 * EdgePadding < windowHeight
            /\ OffsetInRange(entryOffset, linesLen, windowHeight)
            /\ currentLine + 1 > windowHeight + entryOffset - EdgePadding) =>
        /\ offsetMem = Min(currentLine + 1 - windowHeight + EdgePadding,
                           linesLen - windowHeight)
        /\ offsetMem >= entryOffset
        /\ offsetMem + windowHeight <= linesLen

\* C9: a cropTree call with H > 0 and 2P < H entered with S < P + offset
\* stores max(S - P, 0), which is not larger than the prior offset.
C9_ScrollUp ==
    (called /\ windowHeight > 0 /\ 2 * EdgePadding < windowHeight
            /\ currentLine < EdgePadding + entryOffset) =>
        /\ offsetMem = Max(currentLine - EdgePadding, 0)
        /\ offsetMem <= entryOffset

\* C9 witness: the window scrolled up, to a place short of the top
C9_Witness ==
    /\ pc = "returned"
    /\ windowHeight > 0
    /\ 2 * EdgePadding < windowHeight
    /\ currentLine < EdgePadding + entryOffset
    /\ offsetMem < entryOffset
    /\ offsetMem > 0

\* C10: with N and H > 0 unchanged and 2P < H, from an offset within the
\* invariant and a selection inside the padded band, a call with the
\* selection moved by one line moves the offset by at most one line, and
\* only in the direction of the move.
C10_MinimalMovement ==
    [][(/\ pc = "returned"
        /\ windowHeight > 0
        /\ 2 * EdgePadding < windowHeight
        /\ OffsetInRange(offsetMem, linesLen, windowHeight)
        /\ InBand(offsetMem, currentLine, windowHeight, EdgePadding)
        /\ linesLen' = linesLen
        /\ windowHeight' = windowHeight
        /\ currentLine' \in {currentLine + 1, currentLine - 1}) =>
       (/\ offsetMem' - offsetMem \in {-1, 0, 1}
        /\ currentLine' > currentLine => offsetMem' >= offsetMem
        /\ currentLine' < currentLine => offsetMem' <= offsetMem)]_vars

\* the lines of the returned slice that lie above / below the selection
VisibleAbove == {i \in 1..Len(cropped) : cropped[i] < currentLine}

VisibleBelow == {i \in 1..Len(cropped) : cropped[i] > currentLine}

\* C11: after a cropTree call with H > 0, 0 <= S < N and 2P < H at least
\* min(P, S) lines of the window [offset, min(offset + H, N)) lie above the
\* selection and at least min(P, N - 1 - S) below it; for a call that
\* returns, these are lines of the returned slice.
C11_EdgePadding ==
    (called /\ windowHeight > 0 /\ linesLen > 0
            /\ 2 * EdgePadding < windowHeight) =>
        /\ currentLine - offsetMem >= Min(EdgePadding, currentLine)
        /\ Min(offsetMem + windowHeight, linesLen) - 1 - currentLine
              >= Min(EdgePadding, linesLen - 1 - currentLine)
        /\ pc = "returned" =>
              /\ Cardinality(VisibleAbove) >= Min(EdgePadding, currentLine)
              /\ Cardinality(VisibleBelow)
                    >= Min(EdgePadding, linesLen - 1 - currentLine)

\* C11 witness: a window scrolled into the middle of a longer list, with the
\* selection exactly P lines above its lower edge
C11_Witness ==
    /\ pc = "returned"
    /\ windowHeight > 0
    /\ 2 * EdgePadding < windowHeight
    /\ offsetMem > entryOffset
    /\ offsetMem + windowHeight < linesLen
    /\ Cardinality(VisibleBelow) = EdgePadding

\* C18: a cropTree call with H <= 0 leaves the stored offset as it was.
C18_NoHeightKeepsOffset ==
    (called /\ windowHeight <= 0) => offsetMem = entryOffset

\* C18 witness: a call with H <= 0 made on a scrolled viewport
C18_Witness ==
    /\ pc = "returned"
    /\ windowHeight <= 0
    /\ entryOffset > 0

\* ------------------------------------------------------ claims: renderTree
\* the reference: the nodes of the subtree of entry i in pre-order, with
\* their depths, i being at depth d
RECURSIVE PreOrder(_, _, _), PreOrderAll(_, _, _)
PreOrder(t, i, d) ==
    IF t.kind[i] = "nil" THEN <<>>
    ELSE <<(<<i, d>>)>> \o
         (IF t.kind[i] = "open" THEN PreOrderAll(t, Children(t, i), d + 1)
                                ELSE <<>>)

PreOrderAll(t, ch, d) ==
    IF ch = <<>> THEN <<>>
    ELSE PreOrder(t, Head(ch), d) \o PreOrderAll(t, Tail(ch), d)

IsNodeLine(l) == l.node # 0

\* the lines of nodes (the placeholder left out), as <<node, depth>>
NodeLinesOf(ls) ==
    LET nl == SelectSeq(ls, IsNodeLine)
    IN [r \in 1..Len(nl) |-> <<nl[r].node, nl[r].depth>>]

\* C12: renderTree emits the nodes in pre-order, siblings in stored child
\* order, each subtree whole before the next sibling, Root at depth 0 and
\* every child one deeper than its parent.
C12_PreOrder ==
    tpc = "done" => NodeLinesOf(lines) = PreOrder(tree, 1, 0)

\* C12 witness: Root has the children 2 and 3 and 2 has the child 4, so the
\* subtree of 2 (with 4 in it) comes before 3
C12_Witness ==
    /\ tpc = "done"
    /\ tree.n = 4
    /\ tree.parent[2] = 1 /\ tree.parent[3] = 1 /\ tree.parent[4] = 2
    /\ \A i \in 1..4 : tree.kind[i] # "nil"
    /\ NodeLinesOf(lines) = <<(<<1, 0>>), (<<2, 1>>), (<<4, 2>>), (<<3, 1>>)>>

\* the positions (1-based) of the lines that carry the " <-" marker
MarkerLines == {r \in 1..Len(lines) : lines[r].marker}

\* the positions (1-based) of the placeholder lines
PlaceholderLines == {r \in 1..Len(lines) : lines[r].node = 0}

\* C13: renderTree marks at most one line as selected, the returned index is
\* the (0-based) position of that line in the returned list, and it is 0
\* when no line is marked (in particular for a nil Root, whose list is empty).
C13_SelectedIndex ==
    tpc = "done" =>
        /\ Cardinality(MarkerLines) <= 1
        /\ \A r \in MarkerLines :
              /\ selectedRow = r - 1
              /\ lines[r].node \in {0, tree.Selected}
        /\ MarkerLines = {} => selectedRow = 0
        /\ tree.kind[1] = "nil" => lines = <<>>

\* C14: when CurrentDir has a non-nil, empty Children, renderTree emits
\* exactly one placeholder, right after CurrentDir's line, one level deeper,
\* and returns its index; otherwise it emits no placeholder.
C14_Placeholder ==
    tpc = "done" =>
        IF tree.CurrentDir # 0 /\ Children(tree, tree.CurrentDir) = <<>>
        THEN /\ Cardinality(PlaceholderLines) = 1
             /\ \A r \in PlaceholderLines :
                   /\ r > 1
                   /\ lines[r - 1].node = tree.CurrentDir
                   /\ lines[r].depth = lines[r - 1].depth + 1
                   /\ selectedRow = r - 1
        ELSE PlaceholderLines = {}

\* C15: every node line (file or directory, marked or not) at depth d whose
\* name of n runes does not fit, 2d + n > W - 6, shows the first
\* max(0, W - 2d - 6) runes of the name followed by an ellipsis, and shows
\* the whole name otherwise.
C15_Truncation ==
    \A r \in 1..Len(lines) :
        LET l == lines[r]
            n == tree.nameLen
        IN l.node # 0 =>
             IF 2 * l.depth + n > widthLim - reserveWidth
             THEN /\ l.keep = Max(0, widthLim - 2 * l.depth - reserveWidth)
                  /\ l.ellipsis
             ELSE l.keep = n /\ ~l.ellipsis

\* the nodes of the tree: its entries that are not nil pointers
NodesOf(t) == {i \in 1..t.n : t.kind[i] # "nil"}

\* C19: for a non-nil Root, renderTree returns one line for every node
\* reachable from Root, plus one when CurrentDir has zero children, and no
\* other line; the loop pops every entry at most once and so ends, with an
\* empty stack.
C19_LineCount ==
    tree.kind[1] # "nil" =>
        /\ tpc = "loop" => linen + 1 + Len(stack) <= tree.n
        /\ tpc = "done" \/ ENABLED NextTree
        /\ tpc = "done" =>
              /\ stack = <<>>
              /\ Len(lines) = Cardinality(NodesOf(tree))
                    + (IF Children(tree, tree.CurrentDir) = <<>> THEN 1 ELSE 0)
              /\ \A i \in NodesOf(tree) :
                    Cardinality({r \in 1..Len(lines) : lines[r].node = i}) = 1

\* C19 witness: a finished traversal of a tree with three nodes and a nil
\* entry, whose current directory is an empty directory below Root
C19_Witness ==
    /\ tpc = "done"
    /\ Cardinality(NodesOf(tree)) = 3
    /\ tree.n = 4
    /\ tree.CurrentDir > 1
    /\ Children(tree, tree.CurrentDir) = <<>>
    /\ Len(lines) = 4

\* -------------------------------------------------------- claims: Render
\* the latest Render call was made with a window below the minimum
TooSmallWindow == winWidth < minWidth \/ winHeight - headLen < minHeight

\* C16: a Render call whose width is below minWidth, or whose height less the
\* heading rows is below minHeight, shows the "too small" notice without
\* cropping: the stored offset and the record of the latest cropTree call
\* are what they were.
C16_TooSmall ==
    (rendered # "" /\ TooSmallWindow) =>
        /\ rendered = "too small"
        /\ offsetMem = entryOffset

\* C16 witness: a too-small frame after frames that scrolled the viewport
C16_Witness ==
    /\ rendered = "too small"
    /\ TooSmallWindow
    /\ offsetMem > 0
    /\ pc = "returned"

\* ---------------------------------------------------- claims: formatSize
\* the reference: how many times s can be divided by base, the quotient
\* before each division being at least base (den is base^k so far)
RECURSIVE UnitOf(_, _, _)
UnitOf(num, den, base) ==
    IF num >= base * den THEN 1 + UnitOf(num, den * base, base) ELSE 0

\* C17: with base 1024, formatSize picks the unit by the number of divisions
\* by the base, leaves a count below the base unscaled in "b", and prints
\* every value scaled to Kb or a larger unit with two decimals.
C17_SizeFormat ==
    (fpc = "done" /\ sizeBase = 1024) =>
        LET k == UnitOf(sizeIn, 1, 1024)
        IN /\ formatted.unit = k
           /\ k = 0 => formatted.decimals = 0 /\ formatted.digits = sizeIn
           /\ k >= 1 =>
                /\ formatted.decimals = 2
                /\ formatted.digits = Digits(sizeIn, 1024 ^ k, 2)

\* C20: when the scaling loop has ended, the unit index is an index of the
\* 7-entry unit table, so sizes[i] is in range.
C20_UnitIndexInTable ==
    fpc \in {"done", "panic"} =>
        /\ 0 <= unitIdx
        /\ unitIdx <= unitsLimit - 1
        /\ fpc = "done"

====
